---- MODULE Spec2Model ----
(***************************************************************************)
(* Device support for the HPE1368A VME digital I/O card (devHpe1368a.c).   *)
(*                                                                         *)
(* The model follows one record of one of the four record kinds (bi, bo,  *)
(* mbbi, mbbo) through the device-support entry points of its dispatch     *)
(* table: init_record, get_ioint_info and read_write.  The driver          *)
(* (hpe1368a_bi_driver, hpe1368a_bo_driver, hpe1368a_getioscanpvt) is      *)
(* external: each call returns a nondeterministic status and value.        *)
(*                                                                         *)
(* Unsigned machine words (mask, rval, rbv, the driver's value) are sets   *)
(* of bit positions 0 .. MaskBits-1, so that a 32 bit word is represented  *)
(* exactly: the word 1 is {0}, 0x08 is {3}, 0 is {}.                       *)
(***************************************************************************)
EXTENDS Integers, Sequences, FiniteSets, TLC

\* ------------------------------------------------------------------ bounds
MaxCard == 2        \* cards 0 .. MaxCard
MaxSignal == 3      \* signal numbers 0 .. MaxSignal of a VME_IO link
MaxNobt == 2        \* a multi-bit record enters init with its low n bits set, n <= MaxNobt
MaxStatus == 1      \* driver statuses -MaxStatus .. MaxStatus

\* --------------------------------------------------------- program constants
\* width in bits of the records' unsigned long mask/rval/rbv fields and of
\* the driver's unsigned value on the 32 bit VxWorks target
MaskBits == 32

\* S_db_badField, (M_dbAccess | 15) with M_dbAccess = 501 << 16
S_db_badField == 501 * 65536 + 15

Bits == 0 .. (MaskBits - 1)
AllOnes == Bits
Word(n) == 0 .. (n - 1)             \* the word (1 << n) - 1
One == {0}                          \* the word 1

Cards == 0 .. MaxCard
Signals == 0 .. MaxSignal
Kinds == {"bi", "bo", "mbbi", "mbbo"}
OtherLinkTypes == {"CONSTANT", "CAMAC_IO"}
DriverStatuses == (-MaxStatus) .. MaxStatus

\* values the driver's read primitive may hand back through its out parameter
DriverValues == {{}} \cup {{b} : b \in Signals} \cup {Signals, AllOnes}

\* mask as the record support leaves it before device initialisation
InitMasks == {Word(n) : n \in 0 .. MaxNobt} \cup {AllOnes}
InitValues == {{}, One}

VARIABLES
    rec,          \* the record: kind, link field (inp or out), mask, shft, rval, rbv
    initialized,  \* the runtime has called the record's init_record entry
    op,           \* entry point of the last call
    ret,          \* its return status
    calls,        \* driver calls it made, in order
    alarms,       \* recGblSetSevr calls it made, in order
    errors        \* recGblRecordError calls it made, in order

vars == <<rec, initialized, op, ret, calls, alarms, errors>>

\* ------------------------------------------------------------ C operators
\* unsigned  w << n  on a MaskBits wide word, 0 <= n < MaskBits
ShiftLeft(w, n) == {b + n : b \in w} \cap Bits

\* ------------------------------------------------------ external interfaces
\* hpe1368a_bi_driver(card, mask, &value) returning status
BiCall(card, mask, status, value) ==
    [fn |-> "hpe1368a_bi_driver", card |-> card, mask |-> mask,
     status |-> status, value |-> value]

\* hpe1368a_bo_driver(card, value, mask) returning status
BoCall(card, value, mask, status) ==
    [fn |-> "hpe1368a_bo_driver", card |-> card, value |-> value,
     mask |-> mask, status |-> status]

\* hpe1368a_getioscanpvt(card, ppvt) returning status
ScanCall(card, status) ==
    [fn |-> "hpe1368a_getioscanpvt", card |-> card, status |-> status]

\* recGblSetSevr(prec, stat, sevr)
SetSevr(stat, sevr) == [stat |-> stat, sevr |-> sevr]

\* recGblRecordError(status, prec, message)
RecordError(status, msg) == [status |-> status, msg |-> msg]

\* what one entry point call does: the record afterwards, the status
\* returned and the external calls made
Outcome(r, st, cs, al, er) ==
    [rec |-> r, ret |-> st, calls |-> cs, alarms |-> al, errors |-> er]

\* the out parameter of a failing read is not read by any caller
ReadValues(status) == IF status = 0 THEN DriverValues ELSE {{}}

\* a link field: its type tag and, for VME_IO, the vmeio member of its value
VmeLink(card, signal) == [type |-> "VME_IO", card |-> card, signal |-> signal]
OtherLink(type) == [type |-> type]

\* card seen through the vmeio view of the link value: the link's card for
\* a VME_IO link, the bytes of some other union member otherwise
LinkCards(link) == IF link.type = "VME_IO" THEN {link.card} ELSE Cards

\* ------------------------------------------------------------ binary input
\* init_bi without the return in the default branch
init_bi_falls_through(pbi) ==
    IF pbi.inp.type = "VME_IO"
    THEN Outcome([pbi EXCEPT !.mask = ShiftLeft(One, pbi.inp.signal)],
                 0, <<>>, <<>>, <<>>)
    ELSE Outcome(pbi, 0, <<>>, <<>>,
                 <<RecordError(S_db_badField,
                               "devBiHpe1368a (init_record) Illegal INP field")>>)

init_bi(pbi) ==
    IF pbi.inp.type = "VME_IO"
    THEN Outcome([pbi EXCEPT !.mask = ShiftLeft(One, pbi.inp.signal)],
                 0, <<>>, <<>>, <<>>)
    ELSE Outcome(pbi, S_db_badField, <<>>, <<>>,
                 <<RecordError(S_db_badField,
                               "devBiHpe1368a (init_record) Illegal INP field")>>)

bi_ioinfo(pbi, card, status) ==
    Outcome(pbi, status, <<ScanCall(card, status)>>, <<>>, <<>>)

\* read_bi storing whether the bit is present instead of the bits returned
read_bi_normalised(pbi, card, status, value) ==
    Outcome(IF status = 0
            THEN [pbi EXCEPT !.rval = IF value = {} THEN {} ELSE One]
            ELSE pbi,
            status,
            <<BiCall(card, pbi.mask, status, value)>>,
            IF status = 0 THEN <<>> ELSE <<SetSevr("READ_ALARM", "INVALID_ALARM")>>,
            <<>>)

\* read_bi storing the out parameter whatever the status
read_bi_stores_always(pbi, card, status, value) ==
    Outcome([pbi EXCEPT !.rval = value],
            status,
            <<BiCall(card, pbi.mask, status, value)>>,
            IF status = 0 THEN <<>> ELSE <<SetSevr("READ_ALARM", "INVALID_ALARM")>>,
            <<>>)

read_bi(pbi, card, status, value) ==
    Outcome(IF status = 0 THEN [pbi EXCEPT !.rval = value] ELSE pbi,
            status,
            <<BiCall(card, pbi.mask, status, value)>>,
            IF status = 0 THEN <<>> ELSE <<SetSevr("READ_ALARM", "INVALID_ALARM")>>,
            <<>>)

\* ----------------------------------------------------------- binary output
\* init_bo without the assignment mask = 1 before the shift
init_bo_shifts_old_mask(pbo, status, value) ==
    IF pbo.out.type = "VME_IO"
    THEN LET masked == [pbo EXCEPT !.mask = ShiftLeft(pbo.mask, pbo.out.signal)]
         IN  Outcome(IF status = 0
                     THEN [masked EXCEPT !.rval = value, !.rbv = value]
                     ELSE masked,
                     status,
                     <<BiCall(pbo.out.card, masked.mask, status, value)>>,
                     <<>>, <<>>)
    ELSE Outcome(pbo, S_db_badField, <<>>, <<>>,
                 <<RecordError(S_db_badField,
                               "devBoHpe1368a (init_record) Illegal OUT field")>>)

init_bo(pbo, status, value) ==
    IF pbo.out.type = "VME_IO"
    THEN LET masked == [pbo EXCEPT !.mask = ShiftLeft(One, pbo.out.signal)]
         IN  Outcome(IF status = 0
                     THEN [masked EXCEPT !.rval = value, !.rbv = value]
                     ELSE masked,
                     status,
                     <<BiCall(pbo.out.card, masked.mask, status, value)>>,
                     <<>>, <<>>)
    ELSE Outcome(pbo, S_db_badField, <<>>, <<>>,
                 <<RecordError(S_db_badField,
                               "devBoHpe1368a (init_record) Illegal OUT field")>>)

\* write_bo raising the alarm of the read routines
write_bo_read_alarm(pbo, card, status) ==
    Outcome(pbo, status,
            <<BoCall(card, pbo.rval, pbo.mask, status)>>,
            IF status # 0 THEN <<SetSevr("READ_ALARM", "INVALID_ALARM")>> ELSE <<>>,
            <<>>)

write_bo(pbo, card, status) ==
    Outcome(pbo, status,
            <<BoCall(card, pbo.rval, pbo.mask, status)>>,
            IF status # 0 THEN <<SetSevr("WRITE_ALARM", "INVALID_ALARM")>> ELSE <<>>,
            <<>>)

\* -------------------------------------------------------- multi-bit input
\* init_mbbi shifting the mask before shft is assigned
init_mbbi_shifts_first(pmbbi) ==
    IF pmbbi.inp.type = "VME_IO"
    THEN Outcome([pmbbi EXCEPT !.shft = pmbbi.inp.signal,
                               !.mask = ShiftLeft(pmbbi.mask, pmbbi.shft)],
                 0, <<>>, <<>>, <<>>)
    ELSE Outcome(pmbbi, S_db_badField, <<>>, <<>>,
                 <<RecordError(S_db_badField,
                               "devMbbiHpe1368a (init_record) Illegal INP field")>>)

init_mbbi(pmbbi) ==
    IF pmbbi.inp.type = "VME_IO"
    THEN LET shft == pmbbi.inp.signal
         IN  Outcome([pmbbi EXCEPT !.shft = shft,
                                   !.mask = ShiftLeft(pmbbi.mask, shft)],
                     0, <<>>, <<>>, <<>>)
    ELSE Outcome(pmbbi, S_db_badField, <<>>, <<>>,
                 <<RecordError(S_db_badField,
                               "devMbbiHpe1368a (init_record) Illegal INP field")>>)

mbbi_ioinfo(pmbbi, card, status) ==
    Outcome(pmbbi, status, <<ScanCall(card, status)>>, <<>>, <<>>)

\* read_mbbi shifting the bits returned down by shft
read_mbbi_shifts_value(pmbbi, card, status, value) ==
    Outcome(IF status = 0
            THEN [pmbbi EXCEPT !.rval = {b - pmbbi.shft : b \in value} \cap Bits]
            ELSE pmbbi,
            status,
            <<BiCall(card, pmbbi.mask, status, value)>>,
            IF status = 0 THEN <<>> ELSE <<SetSevr("READ_ALARM", "INVALID_ALARM")>>,
            <<>>)

read_mbbi(pmbbi, card, status, value) ==
    Outcome(IF status = 0 THEN [pmbbi EXCEPT !.rval = value] ELSE pmbbi,
            status,
            <<BiCall(card, pmbbi.mask, status, value)>>,
            IF status = 0 THEN <<>> ELSE <<SetSevr("READ_ALARM", "INVALID_ALARM")>>,
            <<>>)

\* ------------------------------------------------------- multi-bit output
\* init_mbbo seeding rval only
init_mbbo_seeds_rval_only(pmbbo, status, value) ==
    IF pmbbo.out.type = "VME_IO"
    THEN LET shft == pmbbo.out.signal
             shifted == [pmbbo EXCEPT !.shft = shft,
                                      !.mask = ShiftLeft(pmbbo.mask, shft)]
         IN  Outcome(IF status = 0
                     THEN [shifted EXCEPT !.rval = value]
                     ELSE shifted,
                     status,
                     <<BiCall(pmbbo.out.card, shifted.mask, status, value)>>,
                     <<>>, <<>>)
    ELSE Outcome(pmbbo, S_db_badField, <<>>, <<>>,
                 <<RecordError(S_db_badField,
                               "devMbboHpe1368a (init_record) Illegal OUT field")>>)

init_mbbo(pmbbo, status, value) ==
    IF pmbbo.out.type = "VME_IO"
    THEN LET shft == pmbbo.out.signal
             shifted == [pmbbo EXCEPT !.shft = shft,
                                      !.mask = ShiftLeft(pmbbo.mask, shft)]
         IN  Outcome(IF status = 0
                     THEN [shifted EXCEPT !.rval = value, !.rbv = value]
                     ELSE shifted,
                     status,
                     <<BiCall(pmbbo.out.card, shifted.mask, status, value)>>,
                     <<>>, <<>>)
    ELSE Outcome(pmbbo, S_db_badField, <<>>, <<>>,
                 <<RecordError(S_db_badField,
                               "devMbboHpe1368a (init_record) Illegal OUT field")>>)

\* write_mbbo keeping the status of the write in a variable of its own, so
\* that a failing read back does not change the status returned
write_mbbo_keeps_write_status(pmbbo, card, wstatus, rstatus, value) ==
    LET write == BoCall(card, pmbbo.rval, pmbbo.mask, wstatus)
        read  == BiCall(card, pmbbo.mask, rstatus, value)
    IN  IF wstatus = 0
        THEN Outcome(IF rstatus = 0 THEN [pmbbo EXCEPT !.rbv = value] ELSE pmbbo,
                     wstatus,
                     <<write, read>>,
                     IF rstatus = 0
                     THEN <<>>
                     ELSE <<SetSevr("READ_ALARM", "INVALID_ALARM")>>,
                     <<>>)
        ELSE Outcome(pmbbo, wstatus, <<write>>,
                     <<SetSevr("WRITE_ALARM", "INVALID_ALARM")>>, <<>>)

\* write_mbbo reading back the single bit at shft instead of the mask
write_mbbo_reads_one_bit(pmbbo, card, wstatus, rstatus, value) ==
    LET write == BoCall(card, pmbbo.rval, pmbbo.mask, wstatus)
        read  == BiCall(card, ShiftLeft(One, pmbbo.shft), rstatus, value)
    IN  IF wstatus = 0
        THEN Outcome(IF rstatus = 0 THEN [pmbbo EXCEPT !.rbv = value] ELSE pmbbo,
                     rstatus,
                     <<write, read>>,
                     IF rstatus = 0
                     THEN <<>>
                     ELSE <<SetSevr("READ_ALARM", "INVALID_ALARM")>>,
                     <<>>)
        ELSE Outcome(pmbbo, wstatus, <<write>>,
                     <<SetSevr("WRITE_ALARM", "INVALID_ALARM")>>, <<>>)

\* wstatus: status of the hpe1368a_bo_driver write; rstatus, value: result
\* of the hpe1368a_bi_driver read that follows a successful write
write_mbbo(pmbbo, card, wstatus, rstatus, value) ==
    LET write == BoCall(card, pmbbo.rval, pmbbo.mask, wstatus)
        read  == BiCall(card, pmbbo.mask, rstatus, value)
    IN  IF wstatus = 0
        THEN Outcome(IF rstatus = 0 THEN [pmbbo EXCEPT !.rbv = value] ELSE pmbbo,
                     rstatus,
                     <<write, read>>,
                     IF rstatus = 0
                     THEN <<>>
                     ELSE <<SetSevr("READ_ALARM", "INVALID_ALARM")>>,
                     <<>>)
        ELSE Outcome(pmbbo, wstatus, <<write>>,
                     <<SetSevr("WRITE_ALARM", "INVALID_ALARM")>>, <<>>)

\* ------------------------------------------------------------- the runtime
Links == {VmeLink(c, s) : c \in Cards, s \in Signals}
             \cup {OtherLink(t) : t \in OtherLinkTypes}

\* records as the record support hands them to device initialisation
BiRecords ==
    {[kind |-> "bi", inp |-> l, mask |-> m, rval |-> v] :
        l \in Links, m \in InitMasks, v \in InitValues}
BoRecords ==
    {[kind |-> "bo", out |-> l, mask |-> m, rval |-> v, rbv |-> b] :
        l \in Links, m \in InitMasks, v \in InitValues, b \in InitValues}
MbbiRecords ==
    {[kind |-> "mbbi", inp |-> l, mask |-> m, shft |-> 0, rval |-> v] :
        l \in Links, m \in InitMasks, v \in InitValues}
MbboRecords ==
    {[kind |-> "mbbo", out |-> l, mask |-> m, shft |-> 0, rval |-> v, rbv |-> b] :
        l \in Links, m \in InitMasks, v \in InitValues, b \in InitValues}

Init ==
    /\ rec \in BiRecords \cup BoRecords \cup MbbiRecords \cup MbboRecords
    /\ initialized = FALSE
    /\ op = "none"
    /\ ret = 0
    /\ calls = <<>>
    /\ alarms = <<>>
    /\ errors = <<>>

\* the runtime calls entry point name of the record's dispatch table
Call(name, out) ==
    /\ rec' = out.rec
    /\ ret' = out.ret
    /\ calls' = out.calls
    /\ alarms' = out.alarms
    /\ errors' = out.errors
    /\ op' = name
    /\ initialized' = TRUE

\* init_record runs once, when the record is loaded
Do_init_bi ==
    /\ rec.kind = "bi" /\ ~initialized
    /\ Call("init_bi", init_bi(rec))

Do_init_bo ==
    /\ rec.kind = "bo" /\ ~initialized
    /\ \E status \in DriverStatuses : \E value \in ReadValues(status) :
          Call("init_bo", init_bo(rec, status, value))

Do_init_mbbi ==
    /\ rec.kind = "mbbi" /\ ~initialized
    /\ Call("init_mbbi", init_mbbi(rec))

Do_init_mbbo ==
    /\ rec.kind = "mbbo" /\ ~initialized
    /\ \E status \in DriverStatuses : \E value \in ReadValues(status) :
          Call("init_mbbo", init_mbbo(rec, status, value))

\* get_ioint_info and read_write run any number of times afterwards
Do_bi_ioinfo ==
    /\ rec.kind = "bi" /\ initialized
    /\ \E card \in LinkCards(rec.inp), status \in DriverStatuses :
          Call("bi_ioinfo", bi_ioinfo(rec, card, status))

Do_read_bi ==
    /\ rec.kind = "bi" /\ initialized
    /\ \E card \in LinkCards(rec.inp), status \in DriverStatuses :
          \E value \in ReadValues(status) :
             Call("read_bi", read_bi(rec, card, status, value))

Do_write_bo ==
    /\ rec.kind = "bo" /\ initialized
    /\ \E card \in LinkCards(rec.out), status \in DriverStatuses :
          Call("write_bo", write_bo(rec, card, status))

Do_mbbi_ioinfo ==
    /\ rec.kind = "mbbi" /\ initialized
    /\ \E card \in LinkCards(rec.inp), status \in DriverStatuses :
          Call("mbbi_ioinfo", mbbi_ioinfo(rec, card, status))

Do_read_mbbi ==
    /\ rec.kind = "mbbi" /\ initialized
    /\ \E card \in LinkCards(rec.inp), status \in DriverStatuses :
          \E value \in ReadValues(status) :
             Call("read_mbbi", read_mbbi(rec, card, status, value))

Do_write_mbbo ==
    /\ rec.kind = "mbbo" /\ initialized
    /\ \E card \in LinkCards(rec.out), wstatus \in DriverStatuses :
          \E rstatus \in (IF wstatus = 0 THEN DriverStatuses ELSE {0}) :
             \E value \in ReadValues(rstatus) :
                Call("write_mbbo", write_mbbo(rec, card, wstatus, rstatus, value))

Next ==
    \/ Do_init_bi
    \/ Do_init_bo
    \/ Do_init_mbbi
    \/ Do_init_mbbo
    \/ Do_bi_ioinfo
    \/ Do_read_bi
    \/ Do_write_bo
    \/ Do_mbbi_ioinfo
    \/ Do_read_mbbi
    \/ Do_write_mbbo

Spec == Init /\ [][Next]_vars

\* ===================================================================== claims
\* the link field of a record, the entry points by category, the alarms
Link(r) == IF r.kind \in {"bi", "mbbi"} THEN r.inp ELSE r.out
IsVme(r) == Link(r).type = "VME_IO"
InitNames == {"init_bi", "init_bo", "init_mbbi", "init_mbbo"}
ReadNames == {"read_bi", "read_mbbi"}
WriteNames == {"write_bo", "write_mbbo"}
IoNames == ReadNames \cup WriteNames \cup {"bi_ioinfo", "mbbi_ioinfo"}
ReadInvalid == [stat |-> "READ_ALARM", sevr |-> "INVALID_ALARM"]
WriteInvalid == [stat |-> "WRITE_ALARM", sevr |-> "INVALID_ALARM"]
BitWord(s) == {s}                                   \* the word 1 << s
Shifted(m, s) == {b \in Bits : (b - s) \in m}       \* the word m << s, truncated
ReadBackFailed ==
    /\ op = "write_mbbo"
    /\ calls[1].status = 0
    /\ Len(calls) = 2
    /\ calls[2].status # 0

\* C1 (as stated): after a successful multi-bit write whose read back of the
\* same mask fails, write_mbbo returns 0 and a READ_ALARM of INVALID
\* severity is raised.
C1_ReadBackFailureReturnsSuccess ==
    ReadBackFailed => (ret = 0 /\ alarms = <<ReadInvalid>>)

\* C1 (amended): a successful multi-bit write is followed by one
\* hpe1368a_bi_driver read of the same card and mask; when that read fails,
\* write_mbbo returns the read's nonzero status and a READ_ALARM of INVALID
\* severity (and no WRITE_ALARM) is raised.
C1_ReadBackFailureReturnsReadStatus ==
    (op = "write_mbbo" /\ calls[1].status = 0) =>
        /\ Len(calls) = 2
        /\ calls[1].fn = "hpe1368a_bo_driver"
        /\ calls[2].fn = "hpe1368a_bi_driver"
        /\ calls[2].mask = calls[1].mask
        /\ calls[2].card = calls[1].card
        /\ calls[2].status # 0 =>
              /\ ret = calls[2].status
              /\ ret # 0
              /\ alarms = <<ReadInvalid>>

C1_Witness ==
    /\ ReadBackFailed
    /\ ret # 0
    /\ alarms = <<ReadInvalid>>

BitPresentRead ==
    /\ op = "read_bi"
    /\ IsVme(rec)
    /\ rec.mask = BitWord(rec.inp.signal)
    /\ calls[1].card = rec.inp.card
    /\ calls[1].mask = rec.mask
    /\ calls[1].status = 0
    /\ calls[1].value = rec.mask

\* C2 (as stated): a binary input bound to signal s whose read returns
\* status 0 and the value 1 << s gets the raw value 1, with no alarm.
C2_BitPresentGivesOne ==
    BitPresentRead => (rec.rval = One /\ alarms = <<>>)

\* C2 (amended): a binary input bound to signal s whose read returns status
\* 0 and the value 1 << s gets the raw value 1 << s (0x08 for signal 3),
\* which is nonzero, with no alarm and return status 0.
C2_BitPresentGivesMask ==
    BitPresentRead =>
        /\ rec.rval = BitWord(rec.inp.signal)
        /\ rec.rval # {}
        /\ alarms = <<>>
        /\ ret = 0

C2_Witness ==
    /\ BitPresentRead
    /\ rec.inp.card = 2
    /\ rec.inp.signal = 3
    /\ rec.rval = {3}

\* C3: initialising a record whose link is not VME_IO returns S_db_badField,
\* reports exactly one error, calls no driver routine and leaves the record
\* (mask, shft, rval, rbv) unchanged.
C3_BadLinkInit ==
    [][(op' \in InitNames /\ ~IsVme(rec)) =>
          /\ ret' = S_db_badField
          /\ Len(errors') = 1
          /\ errors'[1].status = S_db_badField
          /\ calls' = <<>>
          /\ alarms' = <<>>
          /\ rec' = rec]_vars

C3_Witness ==
    /\ op \in InitNames
    /\ ~IsVme(rec)
    /\ ret = S_db_badField
    /\ Len(errors) = 1
    /\ rec.mask = AllOnes

\* C4: initialising a binary record with a VME_IO link of signal s leaves
\* mask = 1 << s, whatever the mask was and whatever the status of init_bo's
\* driver read.
C4_BinaryMask ==
    [][(op' \in {"init_bi", "init_bo"} /\ IsVme(rec)) =>
          rec'.mask = BitWord(Link(rec).signal)]_vars

C4_Witness ==
    /\ op = "init_bo"
    /\ IsVme(rec)
    /\ ret # 0
    /\ rec.out.signal = MaxSignal
    /\ rec.mask = BitWord(MaxSignal)

\* C5: initialising a multi-bit record with a VME_IO link of signal s and
\* mask m yields shft = s and mask = m << s truncated to the field's width.
C5_MultiBitMask ==
    [][(op' \in {"init_mbbi", "init_mbbo"} /\ IsVme(rec)) =>
          /\ rec'.shft = Link(rec).signal
          /\ rec'.mask = Shifted(rec.mask, Link(rec).signal)]_vars

\* the all-ones mask shifted by the largest signal: the top bits are lost
C5_Witness ==
    /\ op \in {"init_mbbi", "init_mbbo"}
    /\ IsVme(rec)
    /\ rec.shft = MaxSignal
    /\ rec.shft > 0
    /\ rec.mask = MaxSignal .. (MaskBits - 1)

\* C6: a read whose single driver call returns status 0 and value v sets
\* rval to exactly v, raises no alarm and returns 0.
C6_ReadStoresValue ==
    (op \in ReadNames /\ calls[1].status = 0) =>
        /\ Len(calls) = 1
        /\ calls[1].fn = "hpe1368a_bi_driver"
        /\ rec.rval = calls[1].value
        /\ alarms = <<>>
        /\ ret = 0

\* a value with bits outside the mask, on a record with a nonzero shift
C6_Witness ==
    /\ op = "read_mbbi"
    /\ IsVme(rec)
    /\ rec.shft > 0
    /\ calls[1].status = 0
    /\ calls[1].value = AllOnes
    /\ rec.rval = AllOnes
    /\ rec.mask # AllOnes

\* C7: a read whose driver call returns a nonzero status keeps rval, raises
\* a READ_ALARM of INVALID severity, returns that status and calls the
\* driver exactly once.
C7_ReadFailure ==
    [][(op' \in ReadNames /\ calls'[1].status # 0) =>
          /\ rec' = rec
          /\ alarms' = <<ReadInvalid>>
          /\ ret' = calls'[1].status
          /\ Len(calls') = 1]_vars

C7_Witness ==
    /\ op \in ReadNames
    /\ calls[1].status # 0
    /\ ret = calls[1].status
    /\ rec.rval \notin InitValues
    /\ alarms = <<ReadInvalid>>

\* C8: once a record with a VME_IO link is initialised, no read, write or
\* ioinfo call changes its mask, shft or link, and every driver call made
\* carries the link's card and (for the bit read and write routines) the
\* record's mask.
C8_MaskFrozen ==
    [][(initialized /\ IsVme(rec) /\ op' \in IoNames) =>
          /\ rec'.mask = rec.mask
          /\ Link(rec') = Link(rec)
          /\ ("shft" \in DOMAIN rec => rec'.shft = rec.shft)
          /\ Len(calls') >= 1
          /\ \A i \in 1 .. Len(calls') :
                /\ calls'[i].card = Link(rec).card
                /\ calls'[i].fn # "hpe1368a_getioscanpvt" =>
                      calls'[i].mask = rec.mask]_vars

C8_Witness ==
    /\ op = "write_mbbo"
    /\ IsVme(rec)
    /\ Len(calls) = 2
    /\ rec.shft = MaxSignal
    /\ rec.mask = Shifted(Word(MaxNobt), MaxSignal)
    /\ calls[2].mask = rec.mask
    /\ rec.rbv # rec.rval

\* C9: a write first calls hpe1368a_bo_driver(card, rval, mask) and never
\* modifies rval; when that call fails, a WRITE_ALARM of INVALID severity
\* and no READ_ALARM is raised, its status is returned, no read back is
\* made and rbv is unchanged.
C9_WriteFailure ==
    [][(op' \in WriteNames) =>
          /\ calls'[1].fn = "hpe1368a_bo_driver"
          /\ calls'[1].value = rec.rval
          /\ calls'[1].mask = rec.mask
          /\ (IsVme(rec) => calls'[1].card = Link(rec).card)
          /\ rec'.rval = rec.rval
          /\ calls'[1].status # 0 =>
                /\ alarms' = <<WriteInvalid>>
                /\ ret' = calls'[1].status
                /\ Len(calls') = 1
                /\ rec' = rec]_vars

C9_Witness ==
    /\ op \in WriteNames
    /\ calls[1].status # 0
    /\ Len(calls) = 1
    /\ alarms = <<WriteInvalid>>
    /\ ret = calls[1].status

\* C10: initialising an output record with a VME_IO link makes exactly one
\* hpe1368a_bi_driver(card, mask) read with the newly computed mask; status
\* 0 with value v sets rval and rbv to v and returns 0; a nonzero status is
\* returned as it is, rval and rbv keep their values, no alarm is raised and
\* no error is reported, and mask and shft keep their new values.
C10_OutputInitRead ==
    [][(op' \in {"init_bo", "init_mbbo"} /\ IsVme(rec)) =>
          /\ Len(calls') = 1
          /\ calls'[1].fn = "hpe1368a_bi_driver"
          /\ calls'[1].card = Link(rec).card
          /\ calls'[1].mask = rec'.mask
          /\ rec'.mask = IF rec.kind = "bo"
                         THEN BitWord(Link(rec).signal)
                         ELSE Shifted(rec.mask, Link(rec).signal)
          /\ (rec.kind = "mbbo" => rec'.shft = Link(rec).signal)
          /\ ret' = calls'[1].status
          /\ alarms' = <<>>
          /\ errors' = <<>>
          /\ IF calls'[1].status = 0
             THEN rec'.rval = calls'[1].value /\ rec'.rbv = calls'[1].value
             ELSE rec'.rval = rec.rval /\ rec'.rbv = rec.rbv]_vars

\* a failed seeding read on a record whose rval and rbv differed
C10_Witness ==
    /\ op \in {"init_bo", "init_mbbo"}
    /\ IsVme(rec)
    /\ ret # 0
    /\ rec.rval # rec.rbv
    /\ rec.mask # {}
    /\ alarms = <<>>
    /\ errors = <<>>

====
